---- MODULE Spec2Model ----
(***************************************************************************)
(* VoteHubPH admin client: the login page (src/app/login/page.tsx) and the *)
(* moderation dashboard (src/unnamed/part_001, the AdminDashboard          *)
(* component), with the remote API and the browser as the environment.     *)
(*                                                                         *)
(* One action is one browser event (a click, a timer callback, a network   *)
(* response, a navigation) together with everything React does before the  *)
(* next event can be delivered: the batched state updates of the handler,  *)
(* the re-render, and the effects whose dependencies changed.              *)
(***************************************************************************)
EXTENDS Naturals, Sequences, FiniteSets

\* ------------------------------------------------------------------ bounds
MaxPosts == 2        \* posts in the server's queue
MaxInFlight == 2     \* requests (GET /admin/posts, approve, reject) in flight at once
MaxTicks == 1        \* steps the clock takes after the model starts
TickMs == 20000      \* length of one clock step (ms)
MountNow == 15000    \* Date.now() when the model starts (ms)
MaxFineTicks == 3    \* steps of the finer clock of the polling specification
FineTickMs == 5000   \* length of one step of the finer clock (ms)
MaxSearches == 2     \* party-list search requests in flight at once

\* --------------------------------------------------------- program constants
CoolDownMs == 10000                       \* the 10 s cool-down of the pollers
MinQueryLength == 2                       \* query.length >= 2 of the party-list search
DefaultRejectNote == "Post rejected by admin"
InitialIsAuthenticated == "null"          \* useState<boolean | null>(null)
InitialFilter == "pending"                \* useState(...)("pending")

PostIds == 1..MaxPosts
Statuses == {"pending", "approved", "rejected"}
Filters == {"all", "pending", "approved", "rejected"}
ClickedFilters == Filters              \* the stats cards and tabs the admin clicks
NotedPosts == {1}                      \* the posts the admin types a note for
Undefined == "undefined"                  \* a key absent from a Record
NoSelection == 0                          \* selectedPartyListId[post.id]: null or absent
TypedNotes == {"bad data"}                 \* what the admin types in the textarea
NullNote == "null"                        \* admin_notes: null
PartyName == "Partido"                    \* post.party, the free-text party list of a post

VARIABLES
  \* browser
  page,               \* "blank" | "login" | "dashboard": the mounted view
  nav,                \* pending navigation: "none" | "/login" | "/"
  admin_authenticated,\* localStorage item, Undefined when absent
  admin_user_id,      \* localStorage item, Undefined when absent
  now,                \* Date.now()
  visible,            \* document.visibilityState = 'visible'
  \* login page
  password, loginIsLoading, loginError, loginReqs,
  \* dashboard state (useState / useRef)
  isAuthenticated, posts, filteredPosts, isLoading, isRefreshing, filter,
  rejectNotes, processingIds, intervalRef, liveIntervals, lastFetchRef,
  isInitialMount,
  fetchPostsClosure,  \* which render's isAuthenticated fetchPosts reads
  \* network and server
  fetchReqs,          \* GET /admin/posts in flight, in issue order
  modReqs,            \* POST .../approve|reject in flight, in issue order
  server,             \* the backend's moderation queue
  \* party-list manager (per post id)
  partyListModals, existingPartyLists, searchPartyList, isSearchingPartyList,
  selectedPartyListId, isProcessingPartyList,
  alertShown,         \* the alert() raised by the latest step, "" if none
  searchReqs,         \* GET /admin/partylists/search in flight, in issue order
  partyReqs           \* POST /admin/partylists[/{id}/members] in flight

browserVars == <<page, nav, admin_authenticated, admin_user_id, now, visible>>
loginVars == <<password, loginIsLoading, loginError, loginReqs>>
dashVars == <<isAuthenticated, posts, filteredPosts, isLoading, isRefreshing,
              filter, rejectNotes, processingIds, intervalRef, liveIntervals,
              lastFetchRef, isInitialMount, fetchPostsClosure>>
netVars == <<fetchReqs, modReqs, server>>
partyRestVars == <<partyListModals, existingPartyLists, searchPartyList,
                   isSearchingPartyList, selectedPartyListId, searchReqs, partyReqs>>
partyVars == <<partyRestVars, isProcessingPartyList, alertShown>>
vars == <<browserVars, loginVars, dashVars, netVars, partyVars>>

\* ------------------------------------------------------------------ helpers
\* A step outside the party-list manager: its state is kept, no alert() raised.
NoPartyStep ==
  /\ alertShown' = ""
  /\ UNCHANGED <<partyRestVars, isProcessingPartyList>>

\* (mutant) a response that cancels the requests issued before its own.
RemoveAt_AndEarlier(s, i) == SubSeq(s, i + 1, Len(s))

RemoveAt(s, i) == [j \in 1..(Len(s) - 1) |-> IF j < i THEN s[j] ELSE s[j + 1]]

\* A submission as the backend first lists it; every post names a party list.
NewPost(id) ==
  [id |-> id, status |-> "pending", admin_notes |-> NullNote,
   party |-> PartyName, party_list_managed |-> FALSE]

NoResp == [kind |-> "none", data |-> <<>>]
\* The handler awaiting a fetchPosts call: a moderation handler (with the
\* processingIds its finally block starts from), a party-list handler, or none.
NoCont == [kind |-> "none", post |-> 0, snap |-> {}]

\* (mutant) the filter effect without its "all" branch.
ApplyFilter_NoAllBranch(f, ps) == SelectSeq(ps, LAMBDA p : p.status = f)

\* The filter effect: setFilteredPosts(posts) or posts.filter(status === filter).
ApplyFilter(f, ps) ==
  IF f = "all" THEN ps ELSE SelectSeq(ps, LAMBDA p : p.status = f)

\* (mutant) handleApprove without its optimistic update.
ApproveMap_Skipped(ps, postId) == ps

\* prevPosts.map(post => post.id === postId ? {...post, status: 'approved'} : post)
ApproveMap(ps, postId) ==
  [i \in DOMAIN ps |->
     IF ps[i].id = postId THEN [ps[i] EXCEPT !.status = "approved"] ELSE ps[i]]

\* prevPosts.map(post => post.id === postId
\*   ? {...post, status: 'rejected', admin_notes: adminNotes} : post)
RejectMap(ps, postId, adminNotes) ==
  [i \in DOMAIN ps |->
     IF ps[i].id = postId
       THEN [ps[i] EXCEPT !.status = "rejected", !.admin_notes = adminNotes]
       ELSE ps[i]]

\* (mutant) the note sent as typed, without the placeholder.
AdminNotesFor_NoDefault(notes, postId) == notes[postId]

\* rejectNotes[postId] || "Post rejected by admin"
AdminNotesFor(notes, postId) ==
  IF notes[postId] = Undefined \/ notes[postId] = ""
    THEN DefaultRejectNote ELSE notes[postId]

\* The isAuthenticated that the body of fetchPosts reads.  fetchPosts is
\* useCallback(..., []): React keeps the function object of the first render,
\* whose isAuthenticated is the useState initial value.  fetchPostsClosure =
\* "latest_render" is the same body closed over the render in progress, as
\* after a development Fast Refresh, which rebuilds memoised callbacks.
FetchPostsSees(auth) ==
  IF fetchPostsClosure = "first_render" THEN InitialIsAuthenticated ELSE auth

\* (mutant) fetchPosts without its authentication guard.
FetchPostsGuard_Dropped(auth) == TRUE

\* if (!isAuthenticated) return
FetchPostsGuard(auth) == FetchPostsSees(auth) = "true"

\* fetchPosts(silent) up to its await: the indicator and the request.  st is
\* the pending [ld, rf, reqs] (isLoading, isRefreshing, requests in flight);
\* cont is the moderation handler awaiting this call, NoCont when none does.
fetchPosts(auth, silent, cont, st) ==
  IF ~FetchPostsGuard(auth) THEN st
  ELSE [ld |-> IF silent THEN st.ld ELSE TRUE,
        rf |-> IF silent THEN TRUE ELSE st.rf,
        reqs |-> Append(st.reqs, [silent |-> silent, resp |-> NoResp, cont |-> cont])]

\* The filter-change effect, deps [filter, fetchPosts, posts.length]:
\* if (!isInitialMount.current && posts.length > 0) fetchPosts(true)
FilterChangeEffect(ps, f, st) ==
  IF (f # filter \/ Len(ps) # Len(posts)) /\ ~isInitialMount /\ Len(ps) > 0
    THEN fetchPosts(isAuthenticated, TRUE, NoCont, st)
    ELSE st

\* Commit of a render with posts ps and filter f, followed by its effects.
Commit(ps, f, st) ==
  LET st2 == FilterChangeEffect(ps, f, st) IN
  /\ posts' = ps
  /\ filter' = f
  /\ filteredPosts' = ApplyFilter(f, ps)
  /\ isLoading' = st2.ld
  /\ isRefreshing' = st2.rf
  /\ fetchReqs' = st2.reqs

\* The model's bound on the requests in flight after a step.
WithinBound == Len(fetchReqs') + Len(modReqs') <= MaxInFlight

Pending == [ld |-> isLoading, rf |-> isRefreshing, reqs |-> fetchReqs]

\* The dashboard JSX is returned only past the two early returns of the render.
DashboardRendered ==
  page = "dashboard" /\ isAuthenticated = "true" /\ ~isLoading

\* (mutant) the action buttons rendered whatever the post's status.
ActionsShown_AnyStatus(p) ==
  /\ DashboardRendered
  /\ \E i \in DOMAIN filteredPosts : filteredPosts[i].id = p

\* The action buttons of a post: rendered for the filtered posts whose status
\* is pending, disabled={processingIds.has(post.id)}.
ActionsShown(p) ==
  /\ DashboardRendered
  /\ \E i \in DOMAIN filteredPosts :
       filteredPosts[i].id = p /\ filteredPosts[i].status = "pending"

\* ---------------------------------------------------------------- initial
\* The party-list manager's useState initial values ({} for every record; a
\* missing query reads as "", a missing flag as false, a missing id as null,
\* missing results render like an empty list).
PartyInit ==
  /\ partyListModals = [p \in PostIds |-> FALSE]
  /\ existingPartyLists = [p \in PostIds |-> <<>>]
  /\ searchPartyList = [p \in PostIds |-> ""]
  /\ isSearchingPartyList = [p \in PostIds |-> FALSE]
  /\ selectedPartyListId = [p \in PostIds |-> NoSelection]
  /\ isProcessingPartyList = [p \in PostIds |-> FALSE]
  /\ alertShown = ""
  /\ searchReqs = <<>>
  /\ partyReqs = <<>>

Init ==
  /\ page = "blank"
  /\ nav \in {"/login", "/"}
  /\ admin_authenticated = Undefined
  /\ admin_user_id = Undefined
  /\ now = MountNow
  /\ visible = TRUE
  /\ password = ""
  /\ loginIsLoading = FALSE
  /\ loginError = ""
  /\ loginReqs = 0
  /\ isAuthenticated = InitialIsAuthenticated
  /\ posts = <<>>
  /\ filteredPosts = <<>>
  /\ isLoading = TRUE
  /\ isRefreshing = FALSE
  /\ filter = InitialFilter
  /\ rejectNotes = [p \in PostIds |-> Undefined]
  /\ processingIds = {}
  /\ intervalRef = "null"
  /\ liveIntervals = 0
  /\ lastFetchRef = 0
  /\ isInitialMount = TRUE
  /\ fetchPostsClosure \in {"first_render", "latest_render"}
  /\ fetchReqs = <<>>
  /\ modReqs = <<>>
  /\ server = [i \in PostIds |-> NewPost(i)]
  /\ PartyInit

\* The component state of a view that is not mounted.
LoginFresh ==
  /\ password' = ""
  /\ loginIsLoading' = FALSE
  /\ loginError' = ""
  /\ loginReqs' = 0

PartyFresh ==
  /\ partyListModals' = [p \in PostIds |-> FALSE]
  /\ existingPartyLists' = [p \in PostIds |-> <<>>]
  /\ searchPartyList' = [p \in PostIds |-> ""]
  /\ isSearchingPartyList' = [p \in PostIds |-> FALSE]
  /\ selectedPartyListId' = [p \in PostIds |-> NoSelection]
  /\ isProcessingPartyList' = [p \in PostIds |-> FALSE]
  /\ alertShown' = ""
  /\ searchReqs' = <<>>
  /\ partyReqs' = <<>>

DashboardFresh ==
  /\ isAuthenticated' = InitialIsAuthenticated
  /\ posts' = <<>>
  /\ filteredPosts' = <<>>
  /\ isLoading' = TRUE
  /\ isRefreshing' = FALSE
  /\ filter' = InitialFilter
  /\ rejectNotes' = [p \in PostIds |-> Undefined]
  /\ processingIds' = {}
  /\ intervalRef' = "null"
  /\ liveIntervals' = 0
  /\ lastFetchRef' = 0
  /\ isInitialMount' = TRUE
  /\ fetchReqs' = <<>>
  /\ modReqs' = <<>>
  /\ PartyFresh

\* ------------------------------------------------------------- navigation
\* The login view is loaded (first visit, or the dashboard's redirect).  The
\* dashboard, if mounted, is torn down: its effect cleanup clears the interval.
NavigateToLogin ==
  /\ nav = "/login"
  /\ page' = "login"
  /\ nav' = "none"
  /\ visible' = TRUE
  /\ LoginFresh
  /\ DashboardFresh
  /\ UNCHANGED <<admin_authenticated, admin_user_id, now, fetchPostsClosure, server>>

\* The dashboard is loaded and mounts: first render, then the effects in
\* source order (authentication check, auto-refresh set-up), then the render
\* with isAuthenticated set and the initial-fetch effect.
NavigateToDashboard ==
  /\ nav = "/"
  /\ LET authenticated == admin_authenticated = "true"
         auth == IF authenticated THEN "true" ELSE "false"
         st0 == [ld |-> authenticated, rf |-> FALSE, reqs |-> <<>>]
         st == IF authenticated THEN fetchPosts(auth, FALSE, NoCont, st0) ELSE st0
     IN /\ isAuthenticated' = auth
        /\ isLoading' = st.ld
        /\ isRefreshing' = st.rf
        /\ fetchReqs' = st.reqs
        /\ isInitialMount' = ~authenticated
        \* window.location.href = '/login' in the render with isAuthenticated false
        /\ nav' = IF authenticated THEN "none" ELSE "/login"
  /\ page' = "dashboard"
  /\ visible' = visible
  /\ posts' = <<>>
  /\ filteredPosts' = ApplyFilter(InitialFilter, <<>>)
  /\ filter' = InitialFilter
  /\ rejectNotes' = [p \in PostIds |-> Undefined]
  /\ processingIds' = {}
  /\ intervalRef' = "live"
  /\ liveIntervals' = 1
  /\ lastFetchRef' = 0
  /\ modReqs' = <<>>
  /\ PartyFresh
  /\ LoginFresh
  /\ UNCHANGED <<admin_authenticated, admin_user_id, now, fetchPostsClosure, server>>

\* ------------------------------------------------------------------ login
Passwords == {"", "secret"}
ServerMessage == "Invalid credentials"
AdminId == "admin-1"

\* What the auth endpoint can answer: 2xx with {user: {id}}, 2xx without user,
\* 2xx that is not JSON, non-2xx with and without a message, non-2xx that is
\* not JSON, and a transport failure.
LoginOutcomes ==
  {"ok_user", "ok_no_user", "ok_not_json",
   "rejected_message", "rejected_no_message", "rejected_not_json", "network_error"}

EditPassword(pw) ==
  /\ page = "login"
  /\ pw # password
  /\ password' = pw
  /\ NoPartyStep
  /\ UNCHANGED <<browserVars, loginIsLoading, loginError, loginReqs, dashVars, netVars>>

\* (mutant) handleLogin without setIsLoading(true).
handleLogin_NoBusy ==
  /\ loginError' = ""
  /\ loginReqs' = loginReqs + 1
  /\ NoPartyStep
  /\ UNCHANGED <<browserVars, password, loginIsLoading, dashVars, netVars>>

\* handleLogin up to its await.
handleLogin ==
  /\ loginIsLoading' = TRUE
  /\ loginError' = ""
  /\ loginReqs' = loginReqs + 1
  /\ NoPartyStep
  /\ UNCHANGED <<browserVars, password, dashVars, netVars>>

\* The submit control: <button type="submit" disabled={isLoading}>, inputs required.
SubmitLogin ==
  /\ page = "login"
  /\ ~loginIsLoading
  /\ password # ""
  /\ handleLogin

\* (mutant) the session marker stored before response.ok is looked at.
LoginStored_BeforeOk(outcome) ==
  outcome \in {"ok_user", "ok_no_user", "rejected_message", "rejected_no_message"}

\* handleLogin from the response on.
LoginStored(outcome) ==
  outcome \in {"ok_user", "ok_no_user"}

LoginNavigates(outcome) ==
  outcome = "ok_user"

LoginErrorFor(outcome) ==
  CASE outcome = "ok_user" -> loginError
    [] outcome = "rejected_message" -> ServerMessage
    [] outcome = "rejected_no_message" -> "Login failed"
    [] OTHER -> "Failed to connect to server"

LoginResponse(outcome) ==
  /\ page = "login"
  /\ loginReqs > 0
  /\ loginReqs' = loginReqs - 1
  /\ admin_authenticated' = IF LoginStored(outcome) THEN "true" ELSE admin_authenticated
  /\ admin_user_id' = IF outcome = "ok_user" THEN AdminId ELSE admin_user_id
  /\ nav' = IF LoginNavigates(outcome) THEN "/" ELSE nav
  /\ loginError' = LoginErrorFor(outcome)
  /\ loginIsLoading' = FALSE
  /\ NoPartyStep
  /\ UNCHANGED <<page, now, visible, password, dashVars, netVars>>

\* ------------------------------------------------------------ environment
Advance ==
  /\ page = "dashboard"
  /\ now + TickMs <= MountNow + MaxTicks * TickMs
  /\ now' = now + TickMs
  /\ NoPartyStep
  /\ UNCHANGED <<page, nav, admin_authenticated, admin_user_id, visible,
                 loginVars, dashVars, netVars>>

\* The backend moderates pending posts only (approved and rejected are
\* terminal); any other request is answered non-2xx.
ServerAccepts(q, m) ==
  \E i \in DOMAIN q : q[i].id = m.post /\ q[i].status = "pending"

\* The backend applies an accepted moderation request.
ServerModerate(q, m) ==
  IF m.kind = "approve"
    THEN [i \in DOMAIN q |->
            IF q[i].id = m.post THEN [q[i] EXCEPT !.status = "approved"] ELSE q[i]]
    ELSE [i \in DOMAIN q |->
            IF q[i].id = m.post
              THEN [q[i] EXCEPT !.status = "rejected", !.admin_notes = m.notes]
              ELSE q[i]]

\* How a GET /admin/posts can end: 2xx with the queue as an array, 2xx with
\* another JSON value, non-2xx, or a transport failure (fetch throws).
FetchOutcomes == {"array", "non_array", "http_error", "network_error"}

\* The backend reads its queue for a GET /admin/posts: the array it will send.
ServerAnswersFetch(i) ==
  /\ page = "dashboard"
  /\ i \in DOMAIN fetchReqs
  /\ fetchReqs[i].resp = NoResp
  /\ fetchReqs' = [fetchReqs EXCEPT ![i].resp = [kind |-> "array", data |-> server]]
  /\ NoPartyStep
  /\ UNCHANGED <<browserVars, loginVars, dashVars, modReqs, server>>

\* ----------------------------------------------------------- post fetcher
\* (mutant) the payload merged into the cache: entries already cached are kept.
LandedPosts_KeepCached(kind, data) ==
  IF kind = "array"
    THEN [i \in DOMAIN data |->
            IF \E j \in DOMAIN posts : posts[j].id = data[i].id
              THEN posts[CHOOSE j \in DOMAIN posts : posts[j].id = data[i].id]
              ELSE data[i]]
    ELSE <<>>

\* (mutant) the payload applied except to the posts whose moderation call is
\* in flight, which keep their cached entry.
LandedPosts_KeepInFlight(kind, data) ==
  IF kind = "array"
    THEN [i \in DOMAIN data |->
            IF \E m \in DOMAIN modReqs, j \in DOMAIN posts :
                 modReqs[m].post = data[i].id /\ posts[j].id = data[i].id
              THEN posts[CHOOSE j \in DOMAIN posts : posts[j].id = data[i].id]
              ELSE data[i]]
    ELSE <<>>

\* (mutant) the cache kept when a fetch fails.
LandedPosts_KeepOnError(kind, data) == IF kind = "array" THEN data ELSE posts

\* setPosts(data) for an array payload, setPosts([]) on every other path.
LandedPosts(kind, data) == IF kind = "array" THEN data ELSE <<>>

\* (mutant) the timestamp never recorded.
LandedLastFetch_Never(kind) == lastFetchRef

\* lastFetchRef.current = Date.now(), on the array path only.
LandedLastFetch(kind) == IF kind = "array" THEN now ELSE lastFetchRef

\* finally of handleApprove / handleReject: new Set(processingIds) of the
\* render the handler was created in, minus postId.
ProcessingAfter(cont) == cont.snap \ {cont.post}

\* (mutant) the attach / create handlers without their finally block.
PartyProcessingAfter_Kept(cont) == isProcessingPartyList

\* finally of the attach / create handlers:
\* setIsProcessingPartyList(prev => ({...prev, [post.id]: false}))
PartyProcessingAfter(cont) == [isProcessingPartyList EXCEPT ![cont.post] = FALSE]

\* fetchPosts from its await on, then the finally of the handler that awaited
\* it, if one did.
FetchLands(i, kind) ==
  /\ page = "dashboard"
  /\ i \in DOMAIN fetchReqs
  /\ (kind = "array") = (fetchReqs[i].resp # NoResp)
  /\ LET r == fetchReqs[i]
         st == [ld |-> FALSE, rf |-> FALSE, reqs |-> RemoveAt(fetchReqs, i)]
     IN /\ lastFetchRef' = LandedLastFetch(kind)
        /\ processingIds' = IF r.cont.kind = "moderation"
                              THEN ProcessingAfter(r.cont) ELSE processingIds
        /\ isProcessingPartyList' = IF r.cont.kind = "party"
                                      THEN PartyProcessingAfter(r.cont)
                                      ELSE isProcessingPartyList
        /\ Commit(LandedPosts(kind, r.resp.data), filter, st)
  /\ alertShown' = ""
  /\ UNCHANGED partyRestVars
  /\ UNCHANGED <<browserVars, loginVars, isAuthenticated, rejectNotes, intervalRef,
                 liveIntervals, isInitialMount, fetchPostsClosure, modReqs, server>>

\* (mutant) setupAutoRefresh arming a new interval without clearing the old.
SetupLive_NoClear(ref, live) == live + 1

\* setupAutoRefresh: clear the interval intervalRef holds, arm a new one.
SetupLive(ref, live) == (IF ref = "live" THEN live - 1 ELSE live) + 1

\* clearInterval(intervalRef.current) when the ref is set; the ref keeps the id.
ClearedLive(ref, live) == IF ref = "live" THEN live - 1 ELSE live
ClearedRef(ref) == IF ref = "null" THEN "null" ELSE "cleared"

\* (mutant) the cool-down test with >= for >.
CoolDownElapsed_AtLeast == now - lastFetchRef >= CoolDownMs

\* now - lastFetchRef.current > 10000
CoolDownElapsed == now - lastFetchRef > CoolDownMs

\* The interval callback.
IntervalTick ==
  /\ page = "dashboard"
  /\ liveIntervals > 0
  /\ Commit(posts, filter,
            IF visible /\ CoolDownElapsed
              THEN fetchPosts(isAuthenticated, TRUE, NoCont, Pending)
              ELSE Pending)
  /\ NoPartyStep
  /\ UNCHANGED <<browserVars, loginVars, isAuthenticated, rejectNotes, processingIds,
                 intervalRef, liveIntervals, lastFetchRef, isInitialMount,
                 fetchPostsClosure, modReqs, server>>
  /\ WithinBound

\* handleVisibilityChange, on the document's visibilitychange event.
VisibilityChange ==
  /\ page = "dashboard"
  /\ visible' = ~visible
  /\ IF ~visible
       THEN /\ Commit(posts, filter,
                      IF CoolDownElapsed
                        THEN fetchPosts(isAuthenticated, TRUE, NoCont, Pending)
                        ELSE Pending)
            /\ liveIntervals' = SetupLive(intervalRef, liveIntervals)
            /\ intervalRef' = "live"
       ELSE /\ Commit(posts, filter, Pending)
            /\ liveIntervals' = ClearedLive(intervalRef, liveIntervals)
            /\ intervalRef' = ClearedRef(intervalRef)
  /\ NoPartyStep
  /\ UNCHANGED <<page, nav, admin_authenticated, admin_user_id, now, loginVars,
                 isAuthenticated, rejectNotes, processingIds, lastFetchRef,
                 isInitialMount, fetchPostsClosure, modReqs, server>>
  /\ WithinBound

\* onClick={() => setFilter(f)} of the stats cards and the filter tabs.
ClickFilter(f) ==
  /\ DashboardRendered
  /\ f # filter
  /\ Commit(posts, f, Pending)
  /\ NoPartyStep
  /\ UNCHANGED <<browserVars, loginVars, isAuthenticated, rejectNotes, processingIds,
                 intervalRef, liveIntervals, lastFetchRef, isInitialMount,
                 fetchPostsClosure, modReqs, server>>
  /\ WithinBound

\* handleManualRefresh
handleManualRefresh ==
  /\ Commit(posts, filter, fetchPosts(isAuthenticated, FALSE, NoCont, Pending))
  /\ NoPartyStep
  /\ UNCHANGED <<browserVars, loginVars, isAuthenticated, rejectNotes, processingIds,
                 intervalRef, liveIntervals, lastFetchRef, isInitialMount,
                 fetchPostsClosure, modReqs, server>>
  /\ WithinBound

\* The refresh button, disabled={isRefreshing || isLoading}.
ClickRefresh ==
  /\ DashboardRendered
  /\ ~(isRefreshing \/ isLoading)
  /\ handleManualRefresh

\* ------------------------------------------------------ moderation actions
\* The textarea of a pending post: setRejectNotes({...prev, [post.id]: value}).
EditRejectNotes(p, text) ==
  /\ ActionsShown(p)
  /\ rejectNotes[p] # text
  /\ rejectNotes' = [rejectNotes EXCEPT ![p] = text]
  /\ NoPartyStep
  /\ UNCHANGED <<browserVars, loginVars, isAuthenticated, posts, filteredPosts,
                 isLoading, isRefreshing, filter, processingIds, intervalRef,
                 liveIntervals, lastFetchRef, isInitialMount, fetchPostsClosure,
                 netVars>>

\* The request a moderation handler sends, with the processingIds of the
\* render it was created in (the set its finally block starts from).
ModRequest(postId, kind, adminNotes) ==
  [post |-> postId, kind |-> kind, notes |-> adminNotes, snap |-> processingIds]

\* handleApprove up to its await.
handleApprove(postId) ==
  IF postId \in processingIds THEN UNCHANGED vars
  ELSE /\ Len(fetchReqs) + Len(modReqs) < MaxInFlight
       /\ processingIds' = processingIds \cup {postId}
       /\ Commit(ApproveMap(posts, postId), filter, Pending)
       /\ modReqs' = Append(modReqs, ModRequest(postId, "approve", NullNote))
       /\ NoPartyStep
       /\ UNCHANGED <<browserVars, loginVars, isAuthenticated, rejectNotes, intervalRef,
                      liveIntervals, lastFetchRef, isInitialMount, fetchPostsClosure,
                      server>>

\* handleReject up to its await.
handleReject(postId) ==
  IF postId \in processingIds THEN UNCHANGED vars
  ELSE /\ Len(fetchReqs) + Len(modReqs) < MaxInFlight
       /\ processingIds' = processingIds \cup {postId}
       /\ Commit(RejectMap(posts, postId, AdminNotesFor(rejectNotes, postId)),
                 filter, Pending)
       /\ rejectNotes' = [rejectNotes EXCEPT ![postId] = Undefined]
       /\ modReqs' = Append(modReqs,
                            ModRequest(postId, "reject", AdminNotesFor(rejectNotes, postId)))
       /\ NoPartyStep
       /\ UNCHANGED <<browserVars, loginVars, isAuthenticated, intervalRef,
                      liveIntervals, lastFetchRef, isInitialMount, fetchPostsClosure,
                      server>>

\* The approve and reject buttons, disabled={processingIds.has(post.id)}.
ClickApprove(p) ==
  /\ ActionsShown(p)
  /\ p \notin processingIds
  /\ handleApprove(p)

ClickReject(p) ==
  /\ ActionsShown(p)
  /\ p \notin processingIds
  /\ handleReject(p)

ModOutcomes == {"ok", "http_error", "network_error"}

\* handleApprove / handleReject from the response on: every path awaits
\* fetchPosts(true); the finally block runs once that call has returned.
ModResponse(i, outcome) ==
  /\ page = "dashboard"
  /\ i \in DOMAIN modReqs
  /\ outcome = "ok" => ServerAccepts(server, modReqs[i])
  /\ LET m == modReqs[i]
         cont == [kind |-> "moderation", post |-> m.post, snap |-> m.snap]
     IN /\ server' = IF outcome = "ok" THEN ServerModerate(server, m) ELSE server
        /\ modReqs' = RemoveAt(modReqs, i)
        /\ Commit(posts, filter, fetchPosts(isAuthenticated, TRUE, cont, Pending))
        /\ processingIds' = IF FetchPostsGuard(isAuthenticated) THEN processingIds
                            ELSE ProcessingAfter(cont)
  /\ NoPartyStep
  /\ UNCHANGED <<browserVars, loginVars, isAuthenticated, rejectNotes, intervalRef,
                 liveIntervals, lastFetchRef, isInitialMount, fetchPostsClosure>>

\* ------------------------------------------------------------ specification
Next ==
  \/ NavigateToLogin
  \/ NavigateToDashboard
  \/ \E pw \in Passwords : EditPassword(pw)
  \/ SubmitLogin
  \/ \E o \in LoginOutcomes : LoginResponse(o)
  \/ Advance
  \/ \E i \in 1..MaxInFlight : ServerAnswersFetch(i)
  \/ \E i \in 1..MaxInFlight, k \in FetchOutcomes : FetchLands(i, k)
  \/ IntervalTick
  \/ VisibilityChange
  \/ \E f \in ClickedFilters : ClickFilter(f)
  \/ ClickRefresh
  \/ \E p \in NotedPosts, t \in TypedNotes : EditRejectNotes(p, t)
  \/ \E p \in PostIds : ClickApprove(p)
  \/ \E p \in PostIds : ClickReject(p)
  \/ \E i \in 1..MaxInFlight, o \in ModOutcomes : ModResponse(i, o)

Spec == Init /\ [][Next]_vars

\* The component as built (fetchPosts memoised at the first render), with the
\* handlers called directly instead of through the rendered controls.
InvokeApprove(p) == page = "dashboard" /\ handleApprove(p)

InvokeReject(p) == page = "dashboard" /\ handleReject(p)

InvokeManualRefresh == page = "dashboard" /\ handleManualRefresh

InitHandlers == Init /\ fetchPostsClosure = "first_render"

NextHandlers ==
  \/ NavigateToLogin
  \/ NavigateToDashboard
  \/ \E pw \in Passwords : EditPassword(pw)
  \/ SubmitLogin
  \/ \E o \in LoginOutcomes : LoginResponse(o)
  \/ Advance
  \/ IntervalTick
  \/ VisibilityChange
  \/ InvokeManualRefresh
  \/ \E p \in PostIds : InvokeApprove(p)
  \/ \E p \in PostIds : InvokeReject(p)
  \/ \E i \in 1..MaxInFlight, o \in ModOutcomes : ModResponse(i, o)

SpecHandlers == InitHandlers /\ [][NextHandlers]_vars

\* The pollers on a finer clock: an authenticated admin opens the dashboard,
\* in a visible or in a background tab, and only the queue is fetched.  The
\* interval callback may run at any moment the interval is armed.
AdvanceFine ==
  /\ page = "dashboard"
  /\ now + FineTickMs <= MountNow + MaxFineTicks * FineTickMs
  /\ now' = now + FineTickMs
  /\ NoPartyStep
  /\ UNCHANGED <<page, nav, admin_authenticated, admin_user_id, visible,
                 loginVars, dashVars, netVars>>

InitPolling ==
  /\ page = "blank"
  /\ nav = "/"
  /\ admin_authenticated = "true"
  /\ admin_user_id = AdminId
  /\ now = MountNow
  /\ visible \in BOOLEAN
  /\ password = ""
  /\ loginIsLoading = FALSE
  /\ loginError = ""
  /\ loginReqs = 0
  /\ isAuthenticated = InitialIsAuthenticated
  /\ posts = <<>>
  /\ filteredPosts = <<>>
  /\ isLoading = TRUE
  /\ isRefreshing = FALSE
  /\ filter = InitialFilter
  /\ rejectNotes = [p \in PostIds |-> Undefined]
  /\ processingIds = {}
  /\ intervalRef = "null"
  /\ liveIntervals = 0
  /\ lastFetchRef = 0
  /\ isInitialMount = TRUE
  /\ fetchPostsClosure \in {"first_render", "latest_render"}
  /\ fetchReqs = <<>>
  /\ modReqs = <<>>
  /\ server = [i \in PostIds |-> NewPost(i)]
  /\ PartyInit

NextPolling ==
  \/ NavigateToDashboard
  \/ AdvanceFine
  \/ \E i \in 1..MaxInFlight : ServerAnswersFetch(i)
  \/ \E i \in 1..MaxInFlight, k \in FetchOutcomes : FetchLands(i, k)
  \/ IntervalTick
  \/ VisibilityChange
  \/ \E f \in ClickedFilters : ClickFilter(f)
  \/ ClickRefresh

SpecPolling == InitPolling /\ [][NextPolling]_vars

\* ------------------------------------------------------ party-list manager
TypedQueries == {"a", "ab", "abc"}     \* what the admin types in the search box
PickedPartyLists == {1}                \* the search results the admin selects
SearchedPosts == {1}                   \* the posts whose modal the admin searches in

\* The backend's answer to GET /admin/partylists/search?q=: the ids of the
\* party lists whose name or acronym matches q.
SearchResult(q) ==
  CASE q = "ab" -> <<1, 2>>
    [] q = "abc" -> <<1>>
    [] OTHER -> <<>>

\* The "Manage Party List" button of a post of the filtered view:
\* post.party && post.status === "pending" && !post.party_list_managed
PartyNoticeShown(p) ==
  /\ DashboardRendered
  /\ \E i \in DOMAIN filteredPosts :
       /\ filteredPosts[i].id = p
       /\ filteredPosts[i].party # ""
       /\ filteredPosts[i].status = "pending"
       /\ ~filteredPosts[i].party_list_managed

\* filteredPosts.map(post => partyListModals[post.id] && post.party && <modal>)
ModalShown(p) ==
  /\ DashboardRendered
  /\ partyListModals[p]
  /\ \E i \in DOMAIN filteredPosts :
       filteredPosts[i].id = p /\ filteredPosts[i].party # ""

\* onClick={() => setPartyListModals(prev => ({...prev, [post.id]: true}))}
OpenModal(p) ==
  /\ PartyNoticeShown(p)
  /\ ~partyListModals[p]
  /\ partyListModals' = [partyListModals EXCEPT ![p] = TRUE]
  /\ alertShown' = ""
  /\ UNCHANGED <<browserVars, loginVars, dashVars, netVars, existingPartyLists,
                 searchPartyList, isSearchingPartyList, selectedPartyListId,
                 isProcessingPartyList, searchReqs, partyReqs>>

\* The modal's close button.
CloseModal(p) ==
  /\ ModalShown(p)
  /\ partyListModals' = [partyListModals EXCEPT ![p] = FALSE]
  /\ alertShown' = ""
  /\ UNCHANGED <<browserVars, loginVars, dashVars, netVars, existingPartyLists,
                 searchPartyList, isSearchingPartyList, selectedPartyListId,
                 isProcessingPartyList, searchReqs, partyReqs>>

\* (mutant) the search fired from the first character on.
SearchFires_AnyLength(query) == Len(query) >= 1

\* if (query.length >= 2)
SearchFires(query) == Len(query) >= MinQueryLength

\* The search box's onChange up to its await.
EditSearch(p, query) ==
  /\ ModalShown(p)
  /\ query # searchPartyList[p]
  /\ searchPartyList' = [searchPartyList EXCEPT ![p] = query]
  /\ selectedPartyListId' = [selectedPartyListId EXCEPT ![p] = NoSelection]
  /\ IF SearchFires(query)
       THEN /\ Len(searchReqs) < MaxSearches
            /\ isSearchingPartyList' = [isSearchingPartyList EXCEPT ![p] = TRUE]
            /\ searchReqs' = Append(searchReqs, [post |-> p, q |-> query])
            /\ UNCHANGED existingPartyLists
       ELSE /\ existingPartyLists' = [existingPartyLists EXCEPT ![p] = <<>>]
            /\ UNCHANGED <<isSearchingPartyList, searchReqs>>
  /\ alertShown' = ""
  /\ UNCHANGED <<browserVars, loginVars, dashVars, netVars, partyListModals,
                 isProcessingPartyList, partyReqs>>

SearchOutcomes == {"ok", "http_error", "network_error"}

\* if (response.ok) setExistingPartyLists(prev => ({...prev, [post.id]: data}))
SearchApplies(r, outcome) == outcome = "ok"

\* The search box's onChange from the response on.
SearchResponse(i, outcome) ==
  /\ page = "dashboard"
  /\ i \in DOMAIN searchReqs
  /\ LET r == searchReqs[i] IN
       /\ existingPartyLists' =
            IF SearchApplies(r, outcome)
              THEN [existingPartyLists EXCEPT ![r.post] = SearchResult(r.q)]
              ELSE existingPartyLists
       /\ isSearchingPartyList' = [isSearchingPartyList EXCEPT ![r.post] = FALSE]
  /\ searchReqs' = RemoveAt(searchReqs, i)
  /\ alertShown' = ""
  /\ UNCHANGED <<browserVars, loginVars, dashVars, netVars, partyListModals,
                 searchPartyList, selectedPartyListId, isProcessingPartyList,
                 partyReqs>>

\* The search results listed in a post's modal:
\* existingPartyLists[post.id] && existingPartyLists[post.id].length > 0
ResultsOf(p) == existingPartyLists[p]

\* onClick={() => setSelectedPartyListId(prev => ({...prev, [post.id]: pl.id}))}
SelectPartyList(p, id) ==
  /\ ModalShown(p)
  /\ \E k \in DOMAIN ResultsOf(p) : ResultsOf(p)[k] = id
  /\ selectedPartyListId[p] # id
  /\ selectedPartyListId' = [selectedPartyListId EXCEPT ![p] = id]
  /\ alertShown' = ""
  /\ UNCHANGED <<browserVars, loginVars, dashVars, netVars, partyListModals,
                 existingPartyLists, searchPartyList, isSearchingPartyList,
                 isProcessingPartyList, searchReqs, partyReqs>>

\* if (!partyListId) { alert(...); return }
AttachNeedsSelection(partyListId) == partyListId = NoSelection

\* The attach button's onClick up to its await.
handleAttach(p) ==
  IF AttachNeedsSelection(selectedPartyListId[p])
    THEN /\ alertShown' = "Please select a party list from the search results first"
         /\ UNCHANGED <<browserVars, loginVars, dashVars, netVars, partyListModals,
                        existingPartyLists, searchPartyList, isSearchingPartyList,
                        selectedPartyListId, isProcessingPartyList, searchReqs,
                        partyReqs>>
    ELSE /\ isProcessingPartyList' = [isProcessingPartyList EXCEPT ![p] = TRUE]
         /\ partyReqs' = Append(partyReqs, [post |-> p, kind |-> "attach",
                                            id |-> selectedPartyListId[p]])
         /\ alertShown' = ""
         /\ UNCHANGED <<browserVars, loginVars, dashVars, netVars, partyListModals,
                        existingPartyLists, searchPartyList, isSearchingPartyList,
                        selectedPartyListId, searchReqs>>

\* The attach button:
\* disabled={!selectedPartyListId[post.id] || isProcessingPartyList[post.id]}
ClickAttach(p) ==
  /\ ModalShown(p)
  /\ ~(selectedPartyListId[p] = NoSelection \/ isProcessingPartyList[p])
  /\ handleAttach(p)

\* (mutant) the create handler without its busy flag.
handleCreate_NoBusy(p) ==
  /\ partyReqs' = Append(partyReqs, [post |-> p, kind |-> "create", id |-> NoSelection])
  /\ alertShown' = ""
  /\ UNCHANGED <<browserVars, loginVars, dashVars, netVars, partyListModals,
                 existingPartyLists, searchPartyList, isSearchingPartyList,
                 selectedPartyListId, isProcessingPartyList, searchReqs>>

\* The create button's onClick up to its await.
handleCreate(p) ==
  /\ isProcessingPartyList' = [isProcessingPartyList EXCEPT ![p] = TRUE]
  /\ partyReqs' = Append(partyReqs, [post |-> p, kind |-> "create", id |-> NoSelection])
  /\ alertShown' = ""
  /\ UNCHANGED <<browserVars, loginVars, dashVars, netVars, partyListModals,
                 existingPartyLists, searchPartyList, isSearchingPartyList,
                 selectedPartyListId, searchReqs>>

\* The create button: disabled={isProcessingPartyList[post.id]}
ClickCreate(p) ==
  /\ ModalShown(p)
  /\ ~isProcessingPartyList[p]
  /\ handleCreate(p)

\* (mutant) the success path without the local party_list_managed update.
ManagedMap_Skipped(ps, postId) == ps

\* prev.map(p => p.id === post.id ? {...p, party_list_managed: true} : p)
ManagedMap(ps, postId) ==
  [i \in DOMAIN ps |->
     IF ps[i].id = postId THEN [ps[i] EXCEPT !.party_list_managed = TRUE] ELSE ps[i]]

\* The backend records the membership of an accepted attach or create.
ServerAttach(q, postId) ==
  [i \in DOMAIN q |->
     IF q[i].id = postId THEN [q[i] EXCEPT !.party_list_managed = TRUE] ELSE q[i]]

PartyOutcomes == {"ok", "rejected_message", "rejected_no_message", "network_error"}

\* The alert() of an attach / create handler after its request.
PartyAlert(kind, outcome) ==
  CASE outcome = "ok" /\ kind = "attach" -> "Successfully added to the party list!"
    [] outcome = "ok" /\ kind = "create" -> "Successfully created party list"
    [] outcome = "rejected_message" -> ServerMessage
    [] kind = "attach" -> "Failed to add member to party list"
    [] OTHER -> "Failed to create party list"

\* The attach / create handlers from the response on.  On 2xx: close the
\* modal, clear the query (attach also clears the selection), flag the cached
\* post, await fetchPosts(); the finally block runs when that call returns.
PartyResponse(i, outcome) ==
  /\ page = "dashboard"
  /\ i \in DOMAIN partyReqs
  /\ LET r == partyReqs[i]
         cont == [kind |-> "party", post |-> r.post, snap |-> {}]
     IN /\ alertShown' = PartyAlert(r.kind, outcome)
        /\ IF outcome = "ok"
             THEN /\ Len(fetchReqs) + Len(modReqs) < MaxInFlight
                  /\ server' = ServerAttach(server, r.post)
                  /\ partyListModals' = [partyListModals EXCEPT ![r.post] = FALSE]
                  /\ searchPartyList' = [searchPartyList EXCEPT ![r.post] = ""]
                  /\ selectedPartyListId' =
                       IF r.kind = "attach"
                         THEN [selectedPartyListId EXCEPT ![r.post] = NoSelection]
                         ELSE selectedPartyListId
                  /\ Commit(ManagedMap(posts, r.post), filter,
                            fetchPosts(isAuthenticated, FALSE, cont, Pending))
                  /\ isProcessingPartyList' =
                       IF FetchPostsGuard(isAuthenticated)
                         THEN isProcessingPartyList ELSE PartyProcessingAfter(cont)
             ELSE /\ isProcessingPartyList' = PartyProcessingAfter(cont)
                  /\ UNCHANGED <<server, partyListModals, searchPartyList,
                                 selectedPartyListId, posts, filter, filteredPosts,
                                 isLoading, isRefreshing, fetchReqs>>
  /\ partyReqs' = RemoveAt(partyReqs, i)
  /\ UNCHANGED <<browserVars, loginVars, isAuthenticated, rejectNotes, processingIds,
                 intervalRef, liveIntervals, lastFetchRef, isInitialMount,
                 fetchPostsClosure, modReqs, existingPartyLists,
                 isSearchingPartyList, searchReqs>>

\* The party-list manager on its own: an authenticated admin opens the
\* dashboard and works in the modals; no moderation, no polling.
InitPartyList == InitPolling /\ visible

NextPartyList ==
  \/ NavigateToDashboard
  \/ \E i \in 1..MaxInFlight : ServerAnswersFetch(i)
  \/ \E i \in 1..MaxInFlight, k \in FetchOutcomes : FetchLands(i, k)
  \/ \E p \in PostIds : OpenModal(p)
  \/ \E p \in PostIds : CloseModal(p)
  \/ \E p \in SearchedPosts, q \in TypedQueries : EditSearch(p, q)
  \/ \E i \in 1..MaxSearches, o \in SearchOutcomes : SearchResponse(i, o)
  \/ \E p \in PostIds, id \in PickedPartyLists : SelectPartyList(p, id)
  \/ \E p \in PostIds : ClickAttach(p)
  \/ \E p \in PostIds : ClickCreate(p)
  \/ \E i \in 1..MaxPosts, o \in PartyOutcomes : PartyResponse(i, o)

SpecPartyList == InitPartyList /\ [][NextPartyList]_vars

\* =================================================================== claims
\* Moderation POSTs in flight for post p, and reconciling GETs (the
\* fetchPosts(true) a moderation handler awaits) in flight for post p.
ModCount(q, p) == Cardinality({i \in DOMAIN q : q[i].post = p})
ReconcileCount(q, p) ==
  Cardinality({i \in DOMAIN q : q[i].cont.kind = "moderation" /\ q[i].cont.post = p})

\* This step sends a moderation request for p / consumes the response to one /
\* sends the reconciling GET of a moderation call on p.
IssuesModeration(p) == ModCount(modReqs', p) > ModCount(modReqs, p)
ConsumesModeration(p) == ModCount(modReqs', p) < ModCount(modReqs, p)
IssuesReconcile(p) == ReconcileCount(fetchReqs', p) > ReconcileCount(fetchReqs, p)

\* A moderation call on p has not resolved: its POST or its reconciling GET
\* is still in flight.
CallUnresolved(p) == ModCount(modReqs, p) > 0 \/ ReconcileCount(fetchReqs, p) > 0

\* C1: in every reachable state, for every post id, at most one moderation
\* request (approve or reject) for that post is in flight.
C1_AtMostOneModerationInFlight ==
  \A p \in PostIds : ModCount(modReqs, p) <= 1

\* C2: while a moderation call on a post id has not resolved (its POST or its
\* reconciling GET is in flight), no step issues another moderation request
\* for that id: the network mutation is performed at most once per call.
C2_SecondInvocationIsNoOp ==
  [][\A p \in PostIds :
       (page = "dashboard" /\ CallUnresolved(p)) => ~IssuesModeration(p)]_vars

\* C3: the step that issues a moderation request for a post leaves the cached
\* post with the optimistic value (approved, or rejected with the notes sent)
\* and issues no reconciling fetch; the reconciling fetch is issued only by a
\* later step, the one that consumes the moderation response.
C3_OptimisticBeforeNetwork ==
  [][\A p \in PostIds :
       /\ IssuesModeration(p) =>
            LET m == modReqs'[Len(modReqs')] IN
            /\ m.post = p
            /\ \A i \in DOMAIN posts' :
                 posts'[i].id = p =>
                   IF m.kind = "approve"
                     THEN posts'[i].status = "approved"
                     ELSE posts'[i].status = "rejected"
                          /\ posts'[i].admin_notes = m.notes
            /\ ~IssuesReconcile(p)
       /\ IssuesReconcile(p) => ConsumesModeration(p)]_vars

C3_Witness ==
  \E i \in DOMAIN modReqs, j \in DOMAIN posts :
    /\ modReqs[i].kind = "reject"
    /\ modReqs[i].notes = "bad data"
    /\ posts[j].id = modReqs[i].post
    /\ posts[j].status = "rejected"
    /\ posts[j].admin_notes = "bad data"

\* C4: the step in which a moderation handler receives its response (2xx,
\* non-2xx or a thrown error) issues a silent GET of the moderation queue.
C4_ModerationFollowedByFetch ==
  [][\A p \in PostIds :
       (page = "dashboard" /\ ConsumesModeration(p)) => IssuesReconcile(p)]_vars

\* C5: when the reconciling fetch of a moderation call on a post lands with an
\* array, the cached entries of that post are exactly the entries of the
\* payload, and a post the payload does not report as pending is absent from
\* the pending-filtered view.
EntriesOf(ps, p) == SelectSeq(ps, LAMBDA e : e.id = p)

C5_ReconciledToServer ==
  [][\A i \in 1..MaxInFlight :
       (FetchLands(i, "array") /\ fetchReqs[i].cont.kind = "moderation") =>
         LET p == fetchReqs[i].cont.post
             data == fetchReqs[i].resp.data
         IN /\ EntriesOf(posts', p) = EntriesOf(data, p)
            /\ (filter' = "pending"
                /\ \A j \in DOMAIN data : data[j].id = p => data[j].status # "pending")
               => EntriesOf(filteredPosts', p) = <<>>]_vars

C5_Witness ==
  /\ page = "dashboard"
  /\ fetchReqs = <<>> /\ modReqs = <<>>
  /\ filter = "pending"
  /\ lastFetchRef > 0
  /\ EntriesOf(server, 1) = <<[NewPost(1) EXCEPT !.status = "approved"]>>
  /\ EntriesOf(posts, 1) = EntriesOf(server, 1)
  /\ EntriesOf(filteredPosts, 1) = <<>>

\* C6: a dashboard mounted with the persisted flag 'true' that shows the
\* primary loading indicator has a non-silent GET of the queue in flight (so
\* the indicator is cleared once the fetch resolves).
C6_InitialFetchIssued ==
  (page = "dashboard" /\ admin_authenticated = "true" /\ isLoading) =>
    \E i \in DOMAIN fetchReqs : ~fetchReqs[i].silent

\* C7: while the persisted flag is not 'true', the mounted dashboard has
\* isAuthenticated false, a navigation to the login view pending, no
\* dashboard rendered and no request to the moderation queue in flight.
C7_UnauthenticatedDenied ==
  (page = "dashboard" /\ admin_authenticated # "true") =>
    /\ isAuthenticated = "false"
    /\ nav = "/login"
    /\ ~DashboardRendered
    /\ fetchReqs = <<>>

C7_Witness ==
  /\ page = "dashboard"
  /\ admin_authenticated = Undefined
  /\ ~visible
  /\ now > MountNow

\* C8: a login response that accepts the credentials (2xx with user.id) sets
\* the flag and the admin id and navigates to the dashboard; a non-2xx
\* response or a network error leaves storage and navigation untouched, shows
\* an error and re-enables the form; storage and navigation change only on 2xx.
LoginRejected ==
  {"rejected_message", "rejected_no_message", "rejected_not_json", "network_error"}

C8_LoginOutcome ==
  [][\A o \in LoginOutcomes :
       LoginResponse(o) =>
         /\ o = "ok_user" =>
              /\ admin_authenticated' = "true"
              /\ admin_user_id' = AdminId
              /\ nav' = "/"
         /\ o \in LoginRejected =>
              /\ UNCHANGED <<admin_authenticated, admin_user_id, nav, page, password>>
              /\ loginError' # ""
              /\ ~loginIsLoading']_vars

C8_Witness ==
  /\ page = "login"
  /\ admin_authenticated = "true"
  /\ admin_user_id = AdminId
  /\ nav = "/"
  /\ loginError = ServerMessage
  /\ ~loginIsLoading

\* C9: a fetchPosts call whose GET lands 2xx with an array replaces the whole
\* cache by the payload and records the time; no step adds more than one GET.
C9_FetchReplaces ==
  [][/\ \A i \in 1..MaxInFlight :
          FetchLands(i, "array") =>
            /\ posts' = fetchReqs[i].resp.data
            /\ lastFetchRef' = now
     /\ Len(fetchReqs') <= Len(fetchReqs) + 1]_vars

C9_Witness ==
  /\ page = "dashboard"
  /\ lastFetchRef = now
  /\ now > MountNow
  /\ Len(posts) = MaxPosts
  /\ \E i \in DOMAIN posts : posts[i].status = "approved"

\* C10: a fetchPosts call whose GET ends non-2xx, with a network error or 2xx
\* with a non-array empties the cache, keeps lastFetchRef, clears both
\* indicators and issues no request; with nothing in flight, a request is
\* issued only by a timer tick, a visibility change, a filter change, a
\* moderation response, a manual refresh or the initial load.
FetchFailures == FetchOutcomes \ {"array"}

C10_FailureEmptiesNoRetry ==
  [][/\ \A i \in 1..MaxInFlight, k \in FetchFailures :
          FetchLands(i, k) =>
            /\ posts' = <<>>
            /\ lastFetchRef' = lastFetchRef
            /\ ~isLoading' /\ ~isRefreshing'
            /\ fetchReqs' = RemoveAt(fetchReqs, i)
     /\ (fetchReqs = <<>> /\ fetchReqs' # <<>>) =>
          \/ IntervalTick
          \/ VisibilityChange
          \/ \E f \in Filters : ClickFilter(f)
          \/ \E i \in 1..MaxInFlight, o \in ModOutcomes : ModResponse(i, o)
          \/ ClickRefresh
          \/ NavigateToDashboard]_vars

C10_Witness ==
  /\ page = "dashboard"
  /\ posts = <<>>
  /\ lastFetchRef > 0
  /\ lastFetchRef < now
  /\ fetchReqs = <<>>
  /\ ~isLoading /\ ~isRefreshing

\* C11: in every state of the mounted dashboard the filtered view is the
\* cached posts whose status equals the filter (all of them under "all"), in
\* cache order: the k-th entry of the view is the k-th matching cached post.
Matches(f, post) == f = "all" \/ post.status = f

MatchingBefore(f, ps, i) == Cardinality({j \in 1..i : Matches(f, ps[j])})

C11_FilteredViewIsSubset ==
  page = "dashboard" =>
    /\ Len(filteredPosts) = MatchingBefore(filter, posts, Len(posts))
    /\ \A i \in DOMAIN posts :
         Matches(filter, posts[i]) =>
           filteredPosts[MatchingBefore(filter, posts, i)] = posts[i]

C11_Witness ==
  /\ page = "dashboard"
  /\ filter = "approved"
  /\ Len(posts) = MaxPosts
  /\ Len(filteredPosts) = 1
  /\ filteredPosts[1].id = MaxPosts
  /\ modReqs # <<>>

\* C12: an interval tick adds a request to the moderation queue only when the
\* document is visible and more than the cool-down has passed since the last
\* successful fetch, and the request it adds is silent; a tick while hidden or
\* inside the cool-down (the boundary included) adds none.
C12_TickRespectsVisibilityAndCoolDown ==
  [][IntervalTick =>
       IF visible /\ now - lastFetchRef > CoolDownMs
         THEN \A i \in DOMAIN fetchReqs' :
                i > Len(fetchReqs) => fetchReqs'[i].silent
         ELSE fetchReqs' = fetchReqs]_vars

C12_Witness ==
  /\ page = "dashboard"
  /\ fetchPostsClosure = "latest_render"
  /\ liveIntervals > 0
  /\ lastFetchRef > 0
  /\ now - lastFetchRef = CoolDownMs
  /\ fetchReqs = <<>>
  /\ ~isRefreshing

\* C13: when the document becomes visible, a silent fetch of the queue is
\* issued if and only if more than the cool-down has passed since the last
\* successful fetch, and in both cases one interval is armed afterwards.
BecomesVisible == VisibilityChange /\ ~visible /\ visible'

C13_VisibleFetchesIffCoolDownElapsed ==
  [][BecomesVisible =>
       /\ (Len(fetchReqs') = Len(fetchReqs) + 1) = (now - lastFetchRef > CoolDownMs)
       /\ \A i \in DOMAIN fetchReqs' : i > Len(fetchReqs) => fetchReqs'[i].silent
       /\ intervalRef' = "live"
       /\ liveIntervals' = 1]_vars

\* C14: whenever the refresh handler can be invoked on the authenticated
\* dashboard, whatever the time since the last successful fetch, invoking it
\* issues one non-silent GET of the moderation queue.
ManualRefreshFetches ==
  /\ handleManualRefresh
  /\ Len(fetchReqs') = Len(fetchReqs) + 1
  /\ ~fetchReqs'[Len(fetchReqs')].silent

C14_ManualRefreshBypassesCoolDown ==
  (/\ page = "dashboard"
   /\ isAuthenticated = "true"
   /\ Len(fetchReqs) + Len(modReqs) < MaxInFlight) => ENABLED ManualRefreshFetches

\* C15: a silent fetch changes only the refreshing indicator: the step that
\* starts one and the step in which one completes (with any outcome) leave
\* the primary loading indicator as it was, in particular set while a
\* non-silent fetch is still in flight.
StartsSilentFetch ==
  /\ Len(fetchReqs') = Len(fetchReqs) + 1
  /\ fetchReqs'[Len(fetchReqs')].silent

StatusOf(ps, p) ==
  IF \E j \in DOMAIN ps : ps[j].id = p
    THEN ps[CHOOSE j \in DOMAIN ps : ps[j].id = p].status
    ELSE "absent"

C17_TerminalStatusesNotModerated ==
  [][\A p \in PostIds :
       /\ IssuesModeration(p) => StatusOf(posts, p) = "pending"
       /\ (/\ page = "dashboard" /\ page' = "dashboard"
           /\ StatusOf(posts, p) \in {"approved", "rejected"}
           /\ StatusOf(posts', p) # StatusOf(posts, p))
          => \E i \in 1..MaxInFlight, k \in FetchOutcomes : FetchLands(i, k)]_vars

C17_Witness ==
  /\ DashboardRendered
  /\ filter = "all"
  /\ StatusOf(filteredPosts, 1) = "approved"
  /\ StatusOf(filteredPosts, 2) = "rejected"
  /\ processingIds = {}
  /\ fetchReqs = <<>> /\ modReqs = <<>>

\* C18: an edit of a post's search query to fewer than 2 characters issues no
\* search request and empties that post's results; an edit to 2 or more
\* characters issues exactly one search request, for that post and query, and
\* leaves the results alone; every edit clears the post's selected id.
C18_SearchLengthGate ==
  [][\A p \in PostIds, q \in TypedQueries :
       EditSearch(p, q) =>
         /\ searchPartyList'[p] = q
         /\ selectedPartyListId'[p] = NoSelection
         /\ IF Len(q) < 2
              THEN searchReqs' = searchReqs /\ existingPartyLists'[p] = <<>>
              ELSE /\ searchReqs' = Append(searchReqs, [post |-> p, q |-> q])
                   /\ existingPartyLists' = existingPartyLists]_vars

C18_Witness ==
  /\ ModalShown(1)
  /\ searchPartyList[1] = "a"
  /\ existingPartyLists[1] = <<>>
  /\ selectedPartyListId[1] = NoSelection
  /\ \E i \in DOMAIN searchReqs : searchReqs[i].post = 1 /\ searchReqs[i].q = "abc"

IssuesAttach(p) ==
  /\ Len(partyReqs') = Len(partyReqs) + 1
  /\ partyReqs'[Len(partyReqs')].post = p
  /\ partyReqs'[Len(partyReqs')].kind = "attach"

C20_AttachToExisting ==
  [][/\ \A p \in PostIds :
          IssuesAttach(p) =>
            /\ selectedPartyListId[p] # NoSelection
            /\ partyReqs'[Len(partyReqs')].id = selectedPartyListId[p]
     /\ \A i \in 1..MaxPosts :
          (PartyResponse(i, "ok") /\ partyReqs[i].kind = "attach") =>
            LET p == partyReqs[i].post IN
            /\ ~partyListModals'[p]
            /\ searchPartyList'[p] = ""
            /\ selectedPartyListId'[p] = NoSelection
            /\ \A j \in DOMAIN posts' :
                 posts'[j].id = p => posts'[j].party_list_managed
            /\ Len(fetchReqs') = Len(fetchReqs) + 1
            /\ ~fetchReqs'[Len(fetchReqs')].silent]_vars

C20_Witness ==
  /\ page = "dashboard"
  /\ alertShown = "Successfully added to the party list!"
  /\ ~partyListModals[1]
  /\ searchPartyList[1] = ""
  /\ selectedPartyListId[1] = NoSelection
  /\ \E j \in DOMAIN posts : posts[j].id = 1 /\ posts[j].party_list_managed
  /\ \E i \in DOMAIN fetchReqs : fetchReqs[i].cont.kind = "party"

ManagedIn(ps, p) == \E j \in DOMAIN ps : ps[j].id = p /\ ps[j].party_list_managed

PartyFailures == PartyOutcomes \ {"ok"}

C22_PartyFailureLeavesState ==
  [][/\ \A p \in PostIds :
          (page = "dashboard" /\ page' = "dashboard"
           /\ ~ManagedIn(posts, p) /\ ManagedIn(posts', p)) =>
            \/ \E i \in 1..MaxPosts : PartyResponse(i, "ok") /\ partyReqs[i].post = p
            \/ \E i \in 1..MaxInFlight, k \in FetchOutcomes : FetchLands(i, k)
     /\ \A i \in 1..MaxPosts, o \in PartyFailures :
          PartyResponse(i, o) =>
            /\ UNCHANGED <<partyListModals, searchPartyList, existingPartyLists,
                           selectedPartyListId, posts, filteredPosts, fetchReqs>>
            /\ alertShown' # ""
            /\ ~isProcessingPartyList'[partyReqs[i].post]]_vars

C22_Witness ==
  /\ ModalShown(1)
  /\ alertShown = "Failed to add member to party list"
  /\ searchPartyList[1] = "ab"
  /\ existingPartyLists[1] = <<1, 2>>
  /\ selectedPartyListId[1] = 1
  /\ ~ManagedIn(posts, 1)
  /\ ~isProcessingPartyList[1]
  /\ fetchReqs = <<>>

\* C23: for every post at most one attach or create request is in flight;
\* while it is in flight the post's busy flag is set; while the busy flag is
\* set neither the attach nor the create button of that post issues a
\* request; and the busy flag of one post leaves the create button of another
\* post, whose modal is shown and which is not busy itself, usable.
PartyInFlight(p) == {i \in DOMAIN partyReqs : partyReqs[i].post = p}

C23_OnePartyRequestPerPost ==
  \A p \in PostIds :
    /\ Cardinality(PartyInFlight(p)) <= 1
    /\ PartyInFlight(p) # {} => isProcessingPartyList[p]
    /\ isProcessingPartyList[p] =>
         /\ ~ENABLED ClickAttach(p)
         /\ ~ENABLED ClickCreate(p)
         /\ \A q \in PostIds \ {p} :
              (ModalShown(q) /\ ~isProcessingPartyList[q]) => ENABLED ClickCreate(q)

C23_Witness ==
  /\ Len(partyReqs) = 2
  /\ partyReqs[1].post = 1
  /\ partyReqs[2].post = 2
  /\ partyReqs[1].kind = "attach"
  /\ isProcessingPartyList[1]
  /\ isProcessingPartyList[2]
  /\ ModalShown(1)

\* C24: at most one authentication request is in flight; while it is in
\* flight the busy flag is set and the submit control issues nothing; every
\* answer (success, rejection, malformed body, network error) clears the busy
\* flag, after which a filled-in form can be submitted again.
C24_LoginSerialized ==
  /\ [](/\ loginReqs <= 1
        /\ loginReqs = 1 => (loginIsLoading /\ ~ENABLED SubmitLogin)
        /\ (page = "login" /\ ~loginIsLoading /\ password # "") => ENABLED SubmitLogin)
  /\ [][\A o \in LoginOutcomes :
          LoginResponse(o) => (~loginIsLoading' /\ loginReqs' = 0)]_vars

C24_Witness ==
  /\ page = "login"
  /\ loginError = "Failed to connect to server"
  /\ admin_authenticated # "true"
  /\ loginReqs = 0
  /\ ~loginIsLoading
  /\ ENABLED SubmitLogin

\* C25: a GET of the queue that lands, at whatever position of the requests
\* in flight, replaces the cache by its own payload and leaves every other
\* request in flight, still to be applied when it lands; so once nothing is
\* in flight the cache is the payload that landed last, whenever issued.
C25_ResponsesAppliedInArrivalOrder ==
  [][\A i \in 1..MaxInFlight, k \in FetchOutcomes :
       FetchLands(i, k) =>
         /\ k = "array" => posts' = fetchReqs[i].resp.data
         /\ Len(fetchReqs') >= Len(fetchReqs) - 1
         /\ \A j \in 1..(Len(fetchReqs) - 1) :
              fetchReqs'[j] = fetchReqs[IF j < i THEN j ELSE j + 1]]_vars

\* Nothing is in flight and the cache shows post 1 as pending although the
\* backend approved it: the GET issued before the approval landed after the
\* reconciling GET issued after it.
C25_Witness ==
  /\ page = "dashboard"
  /\ fetchPostsClosure = "latest_render"
  /\ fetchReqs = <<>>
  /\ modReqs = <<>>
  /\ Len(posts) = MaxPosts
  /\ StatusOf(posts, 1) = "pending"
  /\ StatusOf(server, 1) = "approved"

\* ------------------------------------------------- polling under fairness
\* Date.now() as time goes on without end.  Only now - lastFetchRef.current is
\* ever looked at, so once the clock reaches the end of the modelled range the
\* origin moves instead: the recorded time goes back by the same amount, and 0
\* (no fetch recorded, or one longer ago than the range) stays 0.
AdvanceRebased ==
  /\ page = "dashboard"
  /\ IF now + FineTickMs <= MountNow + MaxFineTicks * FineTickMs
       THEN /\ now' = now + FineTickMs
            /\ lastFetchRef' = lastFetchRef
       ELSE /\ now' = now
            /\ lastFetchRef' = IF lastFetchRef > FineTickMs
                                 THEN lastFetchRef - FineTickMs ELSE 0
  /\ NoPartyStep
  /\ UNCHANGED <<page, nav, admin_authenticated, admin_user_id, visible, loginVars,
                 isAuthenticated, posts, filteredPosts, isLoading, isRefreshing,
                 filter, rejectNotes, processingIds, intervalRef, liveIntervals,
                 isInitialMount, fetchPostsClosure, netVars>>

NextFair ==
  \/ NavigateToDashboard
  \/ AdvanceRebased
  \/ \E i \in 1..MaxInFlight : ServerAnswersFetch(i)
  \/ \E i \in 1..MaxInFlight, k \in FetchOutcomes : FetchLands(i, k)
  \/ IntervalTick
  \/ VisibilityChange
  \/ \E f \in ClickedFilters : ClickFilter(f)
  \/ ClickRefresh

\* The page loads, time passes, an armed interval keeps firing, the backend
\* answers every request and every awaited fetch resolves.
FairPolling ==
  /\ WF_vars(NavigateToDashboard)
  /\ WF_vars(AdvanceRebased)
  /\ WF_vars(IntervalTick)
  /\ WF_vars(\E i \in 1..MaxInFlight : ServerAnswersFetch(i))
  /\ WF_vars(\E i \in 1..MaxInFlight, k \in FetchOutcomes : FetchLands(i, k))

SpecFair == InitPolling /\ [][NextFair]_vars /\ FairPolling

\* A step taken by the user: a visibility change, a filter click, a refresh.
UserActs ==
  \/ VisibilityChange
  \/ \E f \in ClickedFilters : ClickFilter(f)
  \/ ClickRefresh

\* A GET of the queue that ends on one of fetchPosts' failure paths.
FetchFails ==
  \E i \in 1..MaxInFlight, k \in FetchOutcomes \ {"array"} : FetchLands(i, k)

\* C26: if from some point on the tab is visible, the user does nothing and
\* no fetch fails, then from some point on the cache equals the backend's
\* queue (which does not change here) for good.
C26_EventuallyConsistent ==
  (<>[]visible /\ <>[][~UserActs /\ ~FetchFails]_vars) => <>[](posts = server)

\* The same, for a fetchPosts that reads the current render's state.
C26_EventuallyConsistentWhenFetching ==
  (fetchPostsClosure = "latest_render" /\ <>[]visible
     /\ <>[][~UserActs /\ ~FetchFails]_vars) => <>[](posts = server)

\* ------------------------------------------------------- rejection notes
\* The textarea emptied again: onChange with e.target.value === "".
EraseRejectNotes(p) ==
  /\ rejectNotes[p] \notin {Undefined, ""}
  /\ EditRejectNotes(p, "")

NextNotes ==
  \/ NavigateToDashboard
  \/ \E i \in 1..MaxInFlight : ServerAnswersFetch(i)
  \/ \E i \in 1..MaxInFlight, k \in FetchOutcomes : FetchLands(i, k)
  \/ \E p \in PostIds, t \in TypedNotes : EditRejectNotes(p, t)
  \/ \E p \in PostIds : EraseRejectNotes(p)
  \/ \E p \in PostIds : ClickReject(p)
  \/ \E i \in 1..MaxInFlight, o \in ModOutcomes : ModResponse(i, o)

SpecNotes == InitPolling /\ [][NextNotes]_vars

\* C27: a reject sends, and writes into the cached post, the note typed for
\* that post, or 'Post rejected by admin' when none was typed or the textarea
\* was emptied; the step removes that post's buffer entry and leaves the
\* other posts' entries alone, and neither the answer to the call nor a
\* landing fetch touches the buffer.
C27_RejectNote ==
  [][/\ \A p \in PostIds :
          ClickReject(p) =>
            LET note == IF rejectNotes[p] \in {Undefined, ""}
                          THEN "Post rejected by admin" ELSE rejectNotes[p]
            IN /\ modReqs'[Len(modReqs')].kind = "reject"
               /\ modReqs'[Len(modReqs')].post = p
               /\ modReqs'[Len(modReqs')].notes = note
               /\ \A j \in DOMAIN posts' :
                    posts'[j].id = p =>
                      (posts'[j].status = "rejected" /\ posts'[j].admin_notes = note)
               /\ rejectNotes'[p] = Undefined
               /\ \A q \in PostIds \ {p} : rejectNotes'[q] = rejectNotes[q]
     /\ \A i \in 1..MaxInFlight, o \in ModOutcomes :
          ModResponse(i, o) => rejectNotes' = rejectNotes
     /\ \A i \in 1..MaxInFlight, k \in FetchOutcomes :
          FetchLands(i, k) => rejectNotes' = rejectNotes]_vars

\* Post 1 was rejected without a note while a note is typed for post 2; the
\* call is in flight.
C27_Witness ==
  /\ \E i \in DOMAIN modReqs :
       modReqs[i] = [post |-> 1, kind |-> "reject", notes |-> DefaultRejectNote,
                     snap |-> {}]
  /\ \E j \in DOMAIN posts :
       /\ posts[j].id = 1
       /\ posts[j].status = "rejected"
       /\ posts[j].admin_notes = DefaultRejectNote
  /\ rejectNotes[1] = Undefined
  /\ rejectNotes[2] = "bad data"

C30_InFlightIsProcessing ==
  \A p \in PostIds :
    (page = "dashboard" /\ CallUnresolved(p)) => p \in processingIds

\* C31: when no moderation call is unresolved (no POST and no reconciling GET
\* of a handler is in flight) the processing set is empty.
C31_IdleProcessingSetEmpty ==
  (page = "dashboard" /\ \A p \in PostIds : ~CallUnresolved(p)) =>
    processingIds = {}

C33_LoginOutcomesExclusive ==
  [][\A o \in LoginOutcomes :
       LoginResponse(o) =>
         /\ loginError' # "" =>
              (admin_authenticated' = admin_authenticated /\ nav' = nav)
         /\ admin_authenticated' # admin_authenticated =>
              (admin_user_id' = AdminId /\ nav' = "/")]_vars

\* ------------------------------------------------------------ poll timer
\* handleVisibilityChange for a visibilitychange event that reports the state
\* v, the state the document already had included.
VisibilityEvent(v) ==
  /\ page = "dashboard"
  /\ visible' = v
  /\ IF v
       THEN /\ Commit(posts, filter,
                      IF CoolDownElapsed
                        THEN fetchPosts(isAuthenticated, TRUE, NoCont, Pending)
                        ELSE Pending)
            /\ liveIntervals' = SetupLive(intervalRef, liveIntervals)
            /\ intervalRef' = "live"
       ELSE /\ Commit(posts, filter, Pending)
            /\ liveIntervals' = ClearedLive(intervalRef, liveIntervals)
            /\ intervalRef' = ClearedRef(intervalRef)
  /\ NoPartyStep
  /\ UNCHANGED <<page, nav, admin_authenticated, admin_user_id, now, loginVars,
                 isAuthenticated, rejectNotes, processingIds, lastFetchRef,
                 isInitialMount, fetchPostsClosure, modReqs, server>>
  /\ WithinBound

\* The dashboard is unmounted by React: the auto-refresh effect's cleanup runs
\* (clearInterval of what intervalRef holds), the component state is dropped
\* and the responses still awaited are never applied.  The page can be
\* loaded again.
Unmount ==
  /\ page = "dashboard"
  /\ page' = "blank"
  /\ nav' = "/"
  /\ liveIntervals' = ClearedLive(intervalRef, liveIntervals)
  /\ intervalRef' = "null"
  /\ isAuthenticated' = InitialIsAuthenticated
  /\ posts' = <<>>
  /\ filteredPosts' = <<>>
  /\ isLoading' = TRUE
  /\ isRefreshing' = FALSE
  /\ filter' = InitialFilter
  /\ rejectNotes' = [p \in PostIds |-> Undefined]
  /\ processingIds' = {}
  /\ lastFetchRef' = 0
  /\ isInitialMount' = TRUE
  /\ fetchReqs' = <<>>
  /\ modReqs' = <<>>
  /\ PartyFresh
  /\ UNCHANGED <<admin_authenticated, admin_user_id, now, visible, loginVars,
                 fetchPostsClosure, server>>

NextTimers ==
  \/ NavigateToDashboard
  \/ Unmount
  \/ AdvanceFine
  \/ \E v \in BOOLEAN : VisibilityEvent(v)
  \/ IntervalTick
  \/ \E i \in 1..MaxInFlight : ServerAnswersFetch(i)
  \/ \E i \in 1..MaxInFlight, k \in FetchOutcomes : FetchLands(i, k)

SpecTimers == InitPolling /\ [][NextTimers]_vars

\* C34: at most one interval is armed, it is the one intervalRef holds, and
\* none is armed while the dashboard is not mounted.
C34_AtMostOnePollTimer ==
  /\ liveIntervals <= 1
  /\ liveIntervals = 1 => intervalRef = "live"
  /\ page # "dashboard" => liveIntervals = 0

\* The tab was visible long enough to start a silent fetch and is hidden
\* now: the interval armed before is cleared and the ref still holds its id.
C34_Witness ==
  /\ page = "dashboard"
  /\ ~visible
  /\ intervalRef = "cleared"
  /\ liveIntervals = 0
  /\ \E i \in DOMAIN fetchReqs : fetchReqs[i].silent

====
